---- MODULE Spec2Model ----
(***************************************************************************)
(* Model of the chess decision engine of ai_player.js: the material        *)
(* evaluator, the recursive minimax search (as an explicit call stack) and *)
(* the top-level move selector chooseMove.  The rules engine               *)
(* (GameGlobal.Game) is not part of ai_player.js; it is modelled from its  *)
(* documented contract on a small board.  What the contract leaves open is *)
(* left open here: the engine may or may not settle the outcome (finished, *)
(* winner) when the side to move changes, and a bounded number of its      *)
(* lookups may fail, which is what the fault branches of the code handle.  *)
(* Game objects live in a heap, so that a simulation that reached the      *)
(* object it was cloned from would show.  The search depth is SEARCH_DEPTH *)
(* or less, the shallower setting being the one-ply search.                *)
(***************************************************************************)
EXTENDS Integers, Sequences, FiniteSets, TLC

\* ------------------------------------------------------------------ bounds
BoardSize == 3          \* the board is BoardSize x BoardSize
MaxFaults == 1          \* how many rules-engine lookups may fail in one call
MaxStack == 3           \* cap on the depth of the minimax call stack

\* --------------------------------------------------------------- constants
SEARCH_DEPTH == 2
PawnValue == 100
KnightValue == 320
BishopValue == 330
RookValue == 500
QueenValue == 900
KingValue == 20000

Colors == {"white", "black"}
NoColor == "none"
Other(c) == IF c = "white" THEN "black" ELSE "white"

\* ------------------------------------------------------------------ scores
\* A score is a JavaScript number: a finite integer or +/-Infinity.
Fin(v) == [inf |-> 0, val |-> v]
PosInf == [inf |-> 1, val |-> 0]
NegInf == [inf |-> -1, val |-> 0]
ScoreGT(a, b) == \/ a.inf > b.inf
                 \/ a.inf = 0 /\ b.inf = 0 /\ a.val > b.val
MathMax(a, b) == IF ScoreGT(b, a) THEN b ELSE a
MathMin(a, b) == IF ScoreGT(a, b) THEN b ELSE a

\* --------------------------------------------------------------- evaluator
getPieceValue(pieceType) ==
    CASE pieceType = "pawn" -> PawnValue
      [] pieceType = "knight" -> KnightValue
      [] pieceType = "bishop" -> BishopValue
      [] pieceType = "rook" -> RookValue
      [] pieceType = "queen" -> QueenValue
      [] pieceType = "king" -> KingValue
      [] OTHER -> 0

RECURSIVE SumPieces(_, _, _)
SumPieces(pieces, playerColor, n) ==
    IF n = 0 THEN 0
    ELSE SumPieces(pieces, playerColor, n - 1)
         + (IF pieces[n].color = playerColor
            THEN getPieceValue(pieces[n].type)
            ELSE 0 - getPieceValue(pieces[n].type))

evaluateBoard(g, playerColor) == SumPieces(g.pieces, playerColor, Len(g.pieces))

\* ------------------------------------------------ rules engine (Game class)
Files == 1..BoardSize
Squares == Files \X Files                       \* <<file, rank>>
NoSquare == <<0, 0>>
NoPiece == [type |-> "none", color |-> NoColor, position |-> NoSquare]
Pc(t, c, f, r) == [type |-> t, color |-> c, position |-> <<f, r>>]

\* squares in the order the engine lists destinations: rank by rank
SquareAt(i) == <<((i - 1) % BoardSize) + 1, ((i - 1) \div BoardSize) + 1>>
SquareSeq == [i \in 1..(BoardSize * BoardSize) |-> SquareAt(i)]

findPieceByPosition(g, pos) ==
    IF \E i \in 1..Len(g.pieces) : g.pieces[i].position = pos
    THEN g.pieces[CHOOSE i \in 1..Len(g.pieces) : g.pieces[i].position = pos]
    ELSE NoPiece

Occupied(pieces, sq) == \E i \in 1..Len(pieces) : pieces[i].position = sq

Abs(x) == IF x < 0 THEN 0 - x ELSE x
Sgn(x) == IF x < 0 THEN -1 ELSE IF x > 0 THEN 1 ELSE 0

\* every square strictly between a and b on a common line is empty
ClearLine(pieces, a, b) ==
    LET df == b[1] - a[1]
        dr == b[2] - a[2]
        n == IF Abs(df) > Abs(dr) THEN Abs(df) ELSE Abs(dr)
    IN \A k \in 1..(n - 1) :
          ~Occupied(pieces, <<a[1] + k * Sgn(df), a[2] + k * Sgn(dr)>>)

PawnDir(c) == IF c = "white" THEN 1 ELSE -1
LastRank(c) == IF c = "white" THEN BoardSize ELSE 1

\* piece p attacks square sq, given the occupancy
Attacks(pieces, p, sq) ==
    LET df == sq[1] - p.position[1]
        dr == sq[2] - p.position[2]
        straight == (df = 0) # (dr = 0)
        diagonal == Abs(df) = Abs(dr) /\ df # 0
    IN CASE p.type = "king" -> Abs(df) <= 1 /\ Abs(dr) <= 1 /\ <<df, dr>> # <<0, 0>>
         [] p.type = "knight" -> {Abs(df), Abs(dr)} = {1, 2}
         [] p.type = "rook" -> straight /\ ClearLine(pieces, p.position, sq)
         [] p.type = "bishop" -> diagonal /\ ClearLine(pieces, p.position, sq)
         [] p.type = "queen" -> (straight \/ diagonal) /\ ClearLine(pieces, p.position, sq)
         [] p.type = "pawn" -> Abs(df) = 1 /\ dr = PawnDir(p.color)
         [] OTHER -> FALSE

isCheckOn(pieces, color) ==
    \E i, j \in 1..Len(pieces) :
        /\ pieces[i].type = "king" /\ pieces[i].color = color
        /\ pieces[j].color # color
        /\ Attacks(pieces, pieces[j], pieces[i].position)

isCheck(g, color) == isCheckOn(g.pieces, color)

\* destinations of p before the king-safety filter
PseudoDest(pieces, p, sq) ==
    LET occ == findPieceByPosition([pieces |-> pieces], sq)
    IN IF p.type = "pawn"
       THEN \/ /\ sq = <<p.position[1], p.position[2] + PawnDir(p.color)>>
               /\ occ = NoPiece
            \/ /\ Attacks(pieces, p, sq)
               /\ occ # NoPiece /\ occ.color # p.color
       ELSE Attacks(pieces, p, sq) /\ occ.color # p.color

\* the piece list after p goes to sq (whatever stands on sq is removed)
Relocate(pieces, p, sq) ==
    LET kept == SelectSeq(pieces, LAMBDA q : q.position # sq \/ q = p)
    IN [i \in 1..Len(kept) |->
          IF kept[i] = p THEN [p EXCEPT !.position = sq] ELSE kept[i]]

LegalDest(pieces, p, sq) ==
    /\ PseudoDest(pieces, p, sq)
    /\ \E after \in {Relocate(pieces, p, sq)} : ~isCheckOn(after, p.color)

getMoves(g, piece) ==
    SelectSeq(SquareSeq, LAMBDA sq : LegalDest(g.pieces, piece, sq))

HasLegalMove(pieces, color) ==
    \E i \in 1..Len(pieces) : \E sq \in Squares :
        pieces[i].color = color /\ LegalDest(pieces, pieces[i], sq)

\* A game object.  currentPiece is the selection moveSelected/takeWithSelected act on.
NewGame(pieces, player) ==
    [pieces |-> pieces, currentPlayer |-> player, winner |-> NoColor,
     finished |-> FALSE, currentPiece |-> NoPiece]
NoGame == NewGame(<<>>, NoColor)

isFinished(g) == g.finished

\* export() followed by the constructor: the position, the side to move and
\* the outcome are copied; the selection is not part of the exported data
ExportImport(g) ==
    [pieces |-> g.pieces, currentPlayer |-> g.currentPlayer, winner |-> g.winner,
     finished |-> g.finished, currentPiece |-> NoPiece]

moveSelected(g, to) ==
    [g EXCEPT !.pieces = Relocate(g.pieces, g.currentPiece, to),
              !.currentPiece = [g.currentPiece EXCEPT !.position = to]]

takeWithSelected(g, target) == moveSelected(g, target.position)

canMoveSelected(g, to) ==
    g.currentPiece # NoPiece /\ LegalDest(g.pieces, g.currentPiece, to)

canTakeWithSelected(g, target) == canMoveSelected(g, target.position)

checkPawnPromotion(g, piece) ==
    IF piece.type = "pawn" /\ piece.position[2] = LastRank(piece.color)
    THEN [needsPromotion |-> TRUE, pawn |-> piece]
    ELSE [needsPromotion |-> FALSE, pawn |-> NoPiece]

finalizePawnPromotion(g, pawn, kind) ==
    [g EXCEPT !.pieces = [i \in 1..Len(g.pieces) |->
                             IF g.pieces[i] = pawn
                             THEN [pawn EXCEPT !.type = kind]
                             ELSE g.pieces[i]],
              !.currentPiece = IF g.currentPiece = pawn
                               THEN [pawn EXCEPT !.type = kind]
                               ELSE g.currentPiece]

\* An engine that settles outcomes eagerly marks the game finished as soon as
\* the side to move has no legal move (winner set on checkmate, none on a draw).
SettleOutcome(g, eager) ==
    LET Settled(x) ==
            IF eager /\ ~HasLegalMove(x.pieces, x.currentPlayer)
            THEN [x EXCEPT !.finished = TRUE,
                           !.winner = IF isCheckOn(x.pieces, x.currentPlayer)
                                      THEN Other(x.currentPlayer) ELSE NoColor]
            ELSE x
    IN CHOOSE s \in {Settled(x) : x \in {g}} : TRUE     \* g is evaluated once

toggleCurrentPlayer(g, eager) ==
    SettleOutcome([g EXCEPT !.currentPlayer = Other(g.currentPlayer)], eager)

\* ------------------------------------------------------------ enumeration
NoMove == [piece |-> NoPiece, from |-> NoSquare, to |-> NoSquare]

MovesOfPiece(g, piece) ==
    LET moves == getMoves(g, piece)
    IN [j \in 1..Len(moves) |->
          [piece |-> piece, from |-> piece.position, to |-> moves[j]]]

RECURSIVE MovesUpTo(_, _, _)
MovesUpTo(g, color, n) ==
    IF n = 0 THEN <<>>
    ELSE MovesUpTo(g, color, n - 1)
         \o (IF g.pieces[n].color = color THEN MovesOfPiece(g, g.pieces[n]) ELSE <<>>)

\* the move list built by the two nested _.each loops
EnumerateMoves(g, color) == MovesUpTo(g, color, Len(g.pieces))

\* -------------------------------------------------------------- simulation
FaultKinds == {"desync", "illegal", "rejected"}

\* what findPieceByPosition answers on a clone for the origin of a move; a
\* desynchronised clone answers null
LookupOrigin(g, move, fault) ==
    IF fault = "desync" THEN NoPiece ELSE findPieceByPosition(g, move.from)

\* what findPieceByPosition answers for the destination; an illegal target is
\* a piece of the mover's own color standing there
LookupTarget(g, move, mover, fault) ==
    IF fault = "illegal" THEN [mover EXCEPT !.position = move.to]
    ELSE findPieceByPosition(g, move.to)

\* (mutant) the side to move is set but never toggled
PromoteNoToggle(g, player, eager) ==
    LET promoDetails == checkPawnPromotion(g, g.currentPiece)
        promoted == IF promoDetails.needsPromotion
                    THEN finalizePawnPromotion(g, promoDetails.pawn, "queen")
                    ELSE g
    IN [promoted EXCEPT !.currentPlayer = player]

\* promotion to queen, then currentPlayer := player and toggleCurrentPlayer()
PromoteAndToggle(g, player, eager) ==
    LET promoDetails == checkPawnPromotion(g, g.currentPiece)
        promoted == IF promoDetails.needsPromotion
                    THEN finalizePawnPromotion(g, promoDetails.pawn, "queen")
                    ELSE g
    IN toggleCurrentPlayer([promoted EXCEPT !.currentPlayer = player], eager)

\* body of one iteration of a minimax loop up to the recursive call
SimulateChild(parent, move, player, fault, eager) ==
    LET childGameSim == ExportImport(parent)
        pieceToMoveInSim == LookupOrigin(childGameSim, move, fault)
        selected == [childGameSim EXCEPT !.currentPiece = pieceToMoveInSim]
        pieceAtTargetInSim == LookupTarget(selected, move, pieceToMoveInSim, fault)
    IN IF pieceToMoveInSim = NoPiece
       THEN [ok |-> FALSE, game |-> childGameSim]
       ELSE IF pieceAtTargetInSim # NoPiece
               /\ pieceAtTargetInSim.color # pieceToMoveInSim.color
       THEN [ok |-> TRUE,
             game |-> PromoteAndToggle(takeWithSelected(selected, pieceAtTargetInSim),
                                       player, eager)]
       ELSE IF pieceAtTargetInSim = NoPiece
       THEN [ok |-> TRUE,
             game |-> PromoteAndToggle(moveSelected(selected, move.to), player, eager)]
       ELSE [ok |-> FALSE, game |-> selected]

\* body of one iteration of the chooseMove loop up to the call of minimax
SimulateRoot(gameInstance, move, aiC, fault, eager) ==
    LET gameSim == ExportImport(gameInstance)
        pieceToMoveInSim == LookupOrigin(gameSim, move, fault)
        selected == [gameSim EXCEPT !.currentPiece = pieceToMoveInSim]
        pieceAtTargetInSim == LookupTarget(selected, move, pieceToMoveInSim, fault)
    IN IF pieceToMoveInSim = NoPiece
       THEN [ok |-> FALSE, game |-> gameSim]
       ELSE IF pieceAtTargetInSim # NoPiece
               /\ pieceAtTargetInSim.color # pieceToMoveInSim.color
       THEN IF fault # "rejected" /\ canTakeWithSelected(selected, pieceAtTargetInSim)
            THEN [ok |-> TRUE,
                  game |-> PromoteAndToggle(takeWithSelected(selected, pieceAtTargetInSim),
                                            aiC, eager)]
            ELSE [ok |-> FALSE, game |-> selected]
       ELSE IF pieceAtTargetInSim = NoPiece
       THEN IF fault # "rejected" /\ canMoveSelected(selected, move.to)
            THEN [ok |-> TRUE,
                  game |-> PromoteAndToggle(moveSelected(selected, move.to), aiC, eager)]
            ELSE [ok |-> FALSE, game |-> selected]
       ELSE [ok |-> FALSE, game |-> selected]

\* ----------------------------------------------------------- the positions
\* The positions chooseMove is called on: <<pieces, side to move>>.
Positions ==
    { \* king and queen against a lone king: white mates or stalemates in one
      <<<<Pc("king", "white", 1, 3), Pc("queen", "white", 3, 2),
          Pc("king", "black", 1, 1)>>, "white">>,
      \* the same with black to move: black is stalemated
      <<<<Pc("king", "white", 1, 3), Pc("queen", "white", 3, 2),
          Pc("king", "black", 1, 1)>>, "black">>,
      \* black moves and white can mate in reply
      <<<<Pc("king", "white", 1, 1), Pc("king", "black", 3, 2),
          Pc("queen", "white", 1, 2)>>, "black">>,
      \* black moves and white can stalemate in reply
      <<<<Pc("king", "white", 1, 1), Pc("king", "black", 1, 3),
          Pc("queen", "white", 3, 1)>>, "black">>,
      \* a pawn that promotes by capturing a rook
      <<<<Pc("king", "white", 1, 1), Pc("king", "black", 1, 3),
          Pc("pawn", "white", 1, 2), Pc("rook", "black", 2, 3)>>, "white">>,
      \* black is in check and every escape is answered by mate
      <<<<Pc("king", "white", 1, 3), Pc("king", "black", 2, 1),
          Pc("queen", "white", 1, 2), Pc("pawn", "black", 2, 2)>>, "black">>,
      \* black has a single legal move
      <<<<Pc("king", "white", 3, 3), Pc("rook", "white", 2, 3),
          Pc("king", "black", 1, 1)>>, "black">>,
      \* minor pieces: a knight against a bishop
      <<<<Pc("king", "white", 1, 1), Pc("king", "black", 3, 3),
          Pc("knight", "white", 3, 1), Pc("bishop", "black", 1, 3)>>, "white">>,
      \* white can capture an undefended rook
      <<<<Pc("king", "white", 1, 1), Pc("king", "black", 1, 3),
          Pc("rook", "white", 3, 1), Pc("rook", "black", 3, 3)>>, "white">> }

\* ------------------------------------------------------------------- state
VARIABLES
    heap,               \* the game objects: heap[0] is gameInstance, the rest clones
    eagerOutcome,       \* whether the rules engine settles outcomes on each toggle
    baseDepth,          \* the configured search depth
    faultsLeft,         \* lookups of the rules engine that may still fail
    pc,                 \* where chooseMove stands
    aiColor,
    possibleAIMoves,
    k,                  \* index of the root loop (1-based)
    bestMove,
    bestScore,
    stack,              \* the frames of the running minimax calls, innermost last
    currentMoveScore,   \* the value minimax returned to chooseMove
    result,             \* what chooseMove returned
    original,           \* gameInstance as it was when chooseMove was called
    rootLog,            \* per root move: faulted or not, the child state, the score
    lastRet,            \* the last minimax call that returned: node, arguments, value
    selection           \* how the final move was selected

vars == <<heap, eagerOutcome, baseDepth, faultsLeft, pc, aiColor, possibleAIMoves,
          k, bestMove, bestScore, stack, currentMoveScore, result, original,
          rootLog, lastRet, selection>>

Refs == 0..(MaxStack + 1)
NoRet == [node |-> NoGame, depth |-> 0, isMax |-> FALSE, value |-> Fin(0),
          kind |-> "none", nLegal |-> 0, childVals |-> <<>>]
NoSelection == [loopBest |-> NoMove, chosen |-> NoMove, resolved |-> FALSE]

Init ==
    /\ eagerOutcome \in BOOLEAN
    /\ baseDepth \in 1..SEARCH_DEPTH
    /\ \E pos \in Positions :
          LET g == SettleOutcome(NewGame(pos[1], pos[2]), eagerOutcome)
          IN /\ heap = [r \in Refs |-> IF r = 0 THEN g ELSE NoGame]
             /\ original = g
             /\ aiColor = pos[2]
    /\ faultsLeft = MaxFaults
    /\ pc = "enumerate"
    /\ possibleAIMoves = <<>>
    /\ k = 1
    /\ bestMove = NoMove
    /\ bestScore = NegInf
    /\ stack = <<>>
    /\ currentMoveScore = Fin(0)
    /\ result = NoMove
    /\ rootLog = <<>>
    /\ lastRet = NoRet
    /\ selection = NoSelection

\* the lookups the rules engine may answer wrongly at this point
Faults(kinds) == {"none"} \cup (IF faultsLeft > 0 THEN kinds ELSE {})
Spend(fault) == IF fault = "none" THEN faultsLeft ELSE faultsLeft - 1

\* (mutant) the simulation works on the parent object itself
NewGameRefAlias(parent) == parent

\* the reference of the object `new GameGlobal.Game(...)` creates from parent
NewGameRef(parent) == parent + 1

\* (mutant) the recursive call keeps the depth
ChildDepthSame(depth) == depth

\* the depth minimax passes to its recursive call
ChildDepth(depth) == depth - 1

\* the depth chooseMove passes to minimax
RootDepth(searchDepth) == searchDepth - 1

Frame(ref, depth, isMax) ==
    [g |-> ref, depth |-> depth, isMax |-> isMax, phase |-> "enter",
     legalMoves |-> <<>>, i |-> 1,
     acc |-> IF isMax THEN NegInf ELSE PosInf, childVals |-> <<>>]

Top == stack[Len(stack)]
playerForThisTurn(isMax) == IF isMax THEN aiColor ELSE Other(aiColor)

\* chooseMove, lines 181-204: enumerate the root moves
ChooseMoveEnumerate ==
    /\ pc = "enumerate"
    /\ possibleAIMoves' = EnumerateMoves(heap[0], heap[0].currentPlayer)
    /\ aiColor' = heap[0].currentPlayer
    /\ bestMove' = NoMove
    /\ bestScore' = NegInf
    /\ k' = 1
    /\ IF Len(possibleAIMoves') = 0
       THEN pc' = "done" /\ result' = NoMove
       ELSE pc' = "root" /\ result' = result
    /\ UNCHANGED <<heap, eagerOutcome, baseDepth, faultsLeft, stack,
                   currentMoveScore, original, rootLog, lastRet, selection>>

\* chooseMove, lines 206-255: simulate root move k and call minimax
RootSimulate ==
    /\ pc = "root"
    /\ k <= Len(possibleAIMoves)
    /\ \E fault \in Faults(FaultKinds) :
       \E sim \in {SimulateRoot(heap[0], possibleAIMoves[k], aiColor, fault,
                                eagerOutcome)} :
          LET move == possibleAIMoves[k]
              ref == NewGameRef(0)
          IN /\ faultsLeft' = Spend(fault)
             /\ IF sim.ok
                THEN /\ heap' = [heap EXCEPT ![ref] = sim.game]
                     /\ stack' = <<Frame(ref, RootDepth(baseDepth), FALSE)>>
                     /\ pc' = "search"
                     /\ UNCHANGED <<k, rootLog>>
                ELSE /\ k' = k + 1
                     /\ rootLog' = Append(rootLog,
                                     [move |-> move, ok |-> FALSE,
                                      child |-> NoGame, score |-> NegInf])
                     /\ UNCHANGED <<heap, stack, pc>>
    /\ UNCHANGED <<eagerOutcome, baseDepth, aiColor, possibleAIMoves, bestMove,
                   bestScore, currentMoveScore, result, original, lastRet, selection>>

\* (mutant) the minimizing loop also takes the maximum
CombineMax(isMax, acc, evalScore) == MathMax(acc, evalScore)

\* maxEval = Math.max(maxEval, evalScore) / minEval = Math.min(minEval, evalScore)
Combine(isMax, acc, evalScore) ==
    IF isMax THEN MathMax(acc, evalScore) ELSE MathMin(acc, evalScore)

\* minimax returns value v: the caller's frame (or chooseMove) receives it
Return(v, kind) ==
    LET top == Top
        rest == SubSeq(stack, 1, Len(stack) - 1)
    IN /\ lastRet' = [node |-> heap[top.g], depth |-> top.depth, isMax |-> top.isMax,
                      value |-> v, kind |-> kind, nLegal |-> Len(top.legalMoves),
                      childVals |-> top.childVals]
       /\ IF rest = <<>>
          THEN /\ stack' = <<>>
               /\ currentMoveScore' = v
               /\ pc' = "score"
               /\ heap' = heap
          ELSE LET parent == rest[Len(rest)]
                   received ==
                       [parent EXCEPT
                          !.acc = Combine(parent.isMax, parent.acc, v),
                          !.i = parent.i + 1,
                          !.childVals = Append(parent.childVals,
                                               [ok |-> TRUE, value |-> v,
                                                depth |-> top.depth,
                                                isMax |-> top.isMax])]
               IN /\ stack' = [rest EXCEPT ![Len(rest)] = received]
                  /\ heap' = [heap EXCEPT ![top.g] = NoGame]
                  /\ UNCHANGED <<currentMoveScore, pc>>

\* (mutant) the winner field is ignored
TerminalScoreStatic(node) == Fin(evaluateBoard(node, aiColor))

\* the score of a node at which the search stops (lines 69-75)
TerminalScore(node) ==
    IF node.winner # NoColor
    THEN IF node.winner = aiColor THEN PosInf ELSE NegInf
    ELSE Fin(evaluateBoard(node, aiColor))

\* the score of a node whose side to move has no legal move (lines 90-94)
NoMovesScore(node, isMax) ==
    IF isCheck(node, playerForThisTurn(isMax))
    THEN IF isMax THEN NegInf ELSE PosInf
    ELSE Fin(0)

\* minimax, lines 67-76: depth exhausted or game finished
MinimaxTerminal ==
    /\ pc = "search"
    /\ Top.phase = "enter"
    /\ Top.depth = 0 \/ isFinished(heap[Top.g])
    /\ Return(TerminalScore(heap[Top.g]), "terminal")
    /\ UNCHANGED <<eagerOutcome, baseDepth, faultsLeft, aiColor, possibleAIMoves, k,
                   bestMove, bestScore, result, original, rootLog, selection>>

\* minimax, lines 78-95: the side to move has no legal move
MinimaxNoMoves ==
    /\ pc = "search"
    /\ Top.phase = "enter"
    /\ ~(Top.depth = 0 \/ isFinished(heap[Top.g]))
    /\ Len(EnumerateMoves(heap[Top.g], playerForThisTurn(Top.isMax))) = 0
    /\ Return(NoMovesScore(heap[Top.g], Top.isMax), "nomoves")
    /\ UNCHANGED <<eagerOutcome, baseDepth, faultsLeft, aiColor, possibleAIMoves, k,
                   bestMove, bestScore, result, original, rootLog, selection>>

\* minimax, lines 78-98 and 138: the move list is built and the loop starts
MinimaxExpand ==
    /\ pc = "search"
    /\ Top.phase = "enter"
    /\ ~(Top.depth = 0 \/ isFinished(heap[Top.g]))
    /\ LET legalMoves == EnumerateMoves(heap[Top.g], playerForThisTurn(Top.isMax))
       IN /\ Len(legalMoves) > 0
          /\ stack' = [stack EXCEPT ![Len(stack)] =
                          [Top EXCEPT !.phase = "loop", !.legalMoves = legalMoves]]
    /\ UNCHANGED <<heap, eagerOutcome, baseDepth, faultsLeft, pc, aiColor,
                   possibleAIMoves, k, bestMove, bestScore, currentMoveScore, result,
                   original, rootLog, lastRet, selection>>

\* minimax, lines 99-133 and 139-169: one iteration up to the recursive call
MinimaxIterate ==
    /\ pc = "search"
    /\ Top.phase = "loop"
    /\ Top.i <= Len(Top.legalMoves)
    /\ Len(stack) < MaxStack
    /\ \E fault \in Faults({"desync", "illegal"}) :
       \E sim \in {SimulateChild(heap[Top.g], Top.legalMoves[Top.i],
                                 playerForThisTurn(Top.isMax), fault, eagerOutcome)} :
          LET ref == NewGameRef(Top.g)
          IN /\ faultsLeft' = Spend(fault)
             /\ IF sim.ok
                THEN /\ heap' = [heap EXCEPT ![ref] = sim.game]
                     /\ stack' = Append(stack,
                                   Frame(ref, ChildDepth(Top.depth), ~Top.isMax))
                ELSE /\ heap' = heap
                     /\ stack' = [stack EXCEPT ![Len(stack)] =
                                     [Top EXCEPT
                                        !.i = Top.i + 1,
                                        !.childVals = Append(Top.childVals,
                                                        [ok |-> FALSE, value |-> Fin(0),
                                                         depth |-> 0, isMax |-> FALSE])]]
    /\ UNCHANGED <<eagerOutcome, baseDepth, pc, aiColor, possibleAIMoves, k, bestMove,
                   bestScore, currentMoveScore, result, original, rootLog, lastRet,
                   selection>>

\* minimax, lines 136 and 172: the loop is over, the extremum is returned
MinimaxLoopEnd ==
    /\ pc = "search"
    /\ Top.phase = "loop"
    /\ Top.i > Len(Top.legalMoves)
    /\ Return(Top.acc, "internal")
    /\ UNCHANGED <<eagerOutcome, baseDepth, faultsLeft, aiColor, possibleAIMoves, k,
                   bestMove, bestScore, result, original, rootLog, selection>>

\* (mutant) the comparison is the wrong way round
BetterFlipped(score, best) == ScoreGT(best, score)

\* currentMoveScore > bestScore
Better(score, best) == ScoreGT(score, best)

\* chooseMove, lines 256-266: the score of root move k against the best so far
RootScore ==
    /\ pc = "score"
    /\ \E replace \in BOOLEAN :      \* Math.random() < 0.3
          IF Better(currentMoveScore, bestScore)
          THEN /\ bestScore' = currentMoveScore
               /\ bestMove' = possibleAIMoves[k]
          ELSE IF currentMoveScore = bestScore /\ replace
          THEN /\ bestMove' = possibleAIMoves[k]
               /\ bestScore' = bestScore
          ELSE UNCHANGED <<bestMove, bestScore>>
    /\ rootLog' = Append(rootLog, [move |-> possibleAIMoves[k], ok |-> TRUE,
                                   child |-> heap[NewGameRef(0)],
                                   score |-> currentMoveScore])
    /\ heap' = [heap EXCEPT ![NewGameRef(0)] = NoGame]
    /\ k' = k + 1
    /\ pc' = "root"
    /\ UNCHANGED <<eagerOutcome, baseDepth, faultsLeft, aiColor, possibleAIMoves,
                   stack, currentMoveScore, result, original, lastRet, selection>>

\* lines 269-272: a random root move when the loop selected none
FallbackMove(best, moves, r) ==
    IF best = NoMove /\ Len(moves) > 0 THEN moves[r] ELSE best

\* (mutant) no random fallback after a failed resolution
FinalResultNoFallback(chosen, originalPiece, moves, r) ==
    IF chosen # NoMove /\ originalPiece # NoPiece
    THEN [piece |-> originalPiece, from |-> chosen.from, to |-> chosen.to]
    ELSE NoMove

\* lines 274-299: the move object handed to the caller
FinalResult(chosen, originalPiece, moves, r) ==
    IF chosen # NoMove /\ originalPiece # NoPiece
    THEN [piece |-> originalPiece, from |-> chosen.from, to |-> chosen.to]
    ELSE IF Len(moves) > 0 THEN moves[r] ELSE NoMove

\* chooseMove, lines 269-299: fallback, resolution against gameInstance, return
ChooseMoveSelect ==
    /\ pc = "root"
    /\ k > Len(possibleAIMoves)
    /\ \E r1 \in (IF bestMove = NoMove THEN 1..Len(possibleAIMoves) ELSE {1}) :
       \E r2 \in 1..Len(possibleAIMoves) :       \* the two Math.random() draws
       \E fault \in Faults({"desync"}) :
          LET chosen == FallbackMove(bestMove, possibleAIMoves, r1)
              originalPieceForBestMove == LookupOrigin(heap[0], chosen, fault)
          IN /\ faultsLeft' = Spend(fault)
             /\ selection' = [loopBest |-> bestMove, chosen |-> chosen,
                              resolved |-> originalPieceForBestMove # NoPiece]
             /\ result' = FinalResult(chosen, originalPieceForBestMove,
                                      possibleAIMoves, r2)
    /\ pc' = "done"
    /\ UNCHANGED <<heap, eagerOutcome, baseDepth, aiColor, possibleAIMoves, k,
                   bestMove, bestScore, stack, currentMoveScore, original, rootLog,
                   lastRet>>

Next ==
    \/ ChooseMoveEnumerate
    \/ RootSimulate
    \/ MinimaxTerminal
    \/ MinimaxNoMoves
    \/ MinimaxExpand
    \/ MinimaxIterate
    \/ MinimaxLoopEnd
    \/ RootScore
    \/ ChooseMoveSelect

Spec == Init /\ [][Next]_vars

\* chooseMove runs synchronously to completion on the calling thread
FairSpec == Spec /\ WF_vars(Next)

\* ------------------------------------------------------------ the claims
Checkmated(g, c) ==
    g.currentPlayer = c /\ ~HasLegalMove(g.pieces, c) /\ isCheck(g, c)
Stalemated(g, c) ==
    g.currentPlayer = c /\ ~HasLegalMove(g.pieces, c) /\ ~isCheck(g, c)

OkRoots == {i \in 1..Len(rootLog) : rootLog[i].ok}
SameMove(m, n) == m.from = n.from /\ m.to = n.to
Sentinel(winner) == IF winner = aiColor THEN PosInf ELSE NegInf

\* C1: the game passed to chooseMove is never changed, at no point of the call
\* and in particular when it returns: pieces, positions, side to move, outcome.
C1_OriginalUnchanged == heap[0] = original

\* a call that finished after simulating a capture on a clone
C1_Witness ==
    /\ pc = "done" /\ result # NoMove
    /\ \E i \in OkRoots : Len(rootLog[i].child.pieces) < Len(original.pieces)
    /\ lastRet.kind = "internal"

\* C2 (as claimed): whenever some root move is simulated without fault, the
\* returned move is a successfully simulated root move of maximal score.
C2_ReturnsBest ==
    (pc = "done" /\ OkRoots # {}) =>
        \E i \in OkRoots :
            /\ SameMove(rootLog[i].move, result)
            /\ \A j \in OkRoots : ~ScoreGT(rootLog[j].score, rootLog[i].score)

\* C2 (amended): the same, provided the chosen move's piece is re-found in the
\* original state and either some successfully simulated root move scores above
\* -Infinity or no root move faulted.
C2_ReturnsBestAmended ==
    (/\ pc = "done" /\ OkRoots # {}
     /\ selection.resolved
     /\ \/ \E i \in OkRoots : rootLog[i].score # NegInf
        \/ OkRoots = 1..Len(rootLog)) =>
        \E i \in OkRoots :
            /\ SameMove(rootLog[i].move, result)
            /\ \A j \in OkRoots : ~ScoreGT(rootLog[j].score, rootLog[i].score)

\* a root move strictly better than every other one was returned, although
\* another root move faulted
C2_Witness ==
    /\ pc = "done" /\ selection.resolved
    /\ OkRoots # 1..Len(rootLog)
    /\ \E i \in OkRoots :
          /\ SameMove(rootLog[i].move, result)
          /\ \A j \in OkRoots \ {i} : ScoreGT(rootLog[i].score, rootLog[j].score)
          /\ Cardinality(OkRoots) > 1

\* C3: every search call on a node where aiColor's opponent is checkmated
\* returns +Infinity, and on a node where aiColor is checkmated -Infinity, at
\* every depth >= 0 and whether or not the winner field is set.
C3_CheckmateSentinel ==
    lastRet.kind # "none" =>
        /\ Checkmated(lastRet.node, Other(aiColor)) => lastRet.value = PosInf
        /\ Checkmated(lastRet.node, aiColor) => lastRet.value = NegInf

\* C4: every search call on a stalemate node returns exactly 0, and chooseMove
\* on a stalemate position returns none.
C4_StalemateZero ==
    /\ (lastRet.kind # "none"
        /\ Stalemated(lastRet.node, lastRet.node.currentPlayer))
           => lastRet.value = Fin(0)
    /\ (pc = "done" /\ Stalemated(original, original.currentPlayer))
           => result = NoMove

\* C5 (as claimed): with base depth 1 the score of every root move simulated
\* without fault is the static evaluation of its resulting state, decided or not.
C5_DepthOneStatic ==
    baseDepth = 1 =>
        \A i \in OkRoots :
            rootLog[i].score = Fin(evaluateBoard(rootLog[i].child, aiColor))

\* C5 (amended): with base depth 1 the score of a root move simulated without
\* fault is the static evaluation of its resulting state when that state has no
\* winner, and the win or loss sentinel when its winner is set.
C5_DepthOneStaticAmended ==
    baseDepth = 1 =>
        \A i \in OkRoots :
            rootLog[i].score =
                IF rootLog[i].child.winner = NoColor
                THEN Fin(evaluateBoard(rootLog[i].child, aiColor))
                ELSE Sentinel(rootLog[i].child.winner)

\* a depth-1 call that scored an undecided child and a decided one
C5_Witness ==
    /\ pc = "done" /\ baseDepth = 1
    /\ \E i, j \in OkRoots :
          /\ rootLog[i].child.winner = NoColor
          /\ rootLog[j].child.winner # NoColor

\* C6 (as claimed): when the chosen move's piece is not re-found in the original
\* state, chooseMove returns none.
C6_ResolutionFaultNone ==
    (pc = "done" /\ selection.chosen # NoMove /\ ~selection.resolved) =>
        result = NoMove

\* C6 (amended): when the chosen move's piece is not re-found in the original
\* state, chooseMove returns an element of the root-move list, never none.
C6_ResolutionFaultFallback ==
    (pc = "done" /\ selection.chosen # NoMove /\ ~selection.resolved) =>
        \E i \in 1..Len(possibleAIMoves) : result = possibleAIMoves[i]

\* the resolution of a move the scoring loop selected failed
C6_Witness ==
    /\ pc = "done" /\ ~selection.resolved
    /\ selection.chosen # NoMove /\ selection.loopBest = selection.chosen

\* C7: when the scoring loop selected no move although root moves exist,
\* chooseMove returns a move with the origin and destination of a root move.
C7_FallbackReturnsRootMove ==
    (pc = "done" /\ Len(possibleAIMoves) > 0 /\ selection.loopBest = NoMove) =>
        /\ result # NoMove
        /\ \E i \in 1..Len(possibleAIMoves) : SameMove(result, possibleAIMoves[i])

\* every root move was scored without fault and none replaced the initial best
C7_Witness ==
    /\ pc = "done" /\ selection.loopBest = NoMove
    /\ Len(possibleAIMoves) > 1
    /\ OkRoots = 1..Len(possibleAIMoves)
    /\ \E i \in 1..Len(possibleAIMoves) : SameMove(result, possibleAIMoves[i])

\* the extremum of the values the children of the last returned node returned
OkVals(cv) == {cv[i].value : i \in {n \in 1..Len(cv) : cv[n].ok}}
Extremum(isMax, S) ==
    IF S = {} THEN (IF isMax THEN NegInf ELSE PosInf)
    ELSE IF isMax THEN CHOOSE v \in S : \A w \in S : ~ScoreGT(w, v)
    ELSE CHOOSE v \in S : \A w \in S : ~ScoreGT(v, w)

StackDepthsOK ==
    \A j \in 1..Len(stack) :
        /\ stack[j].depth >= 0
        /\ j > 1 => stack[j].depth = stack[j - 1].depth - 1

\* C9: each recursive search call has depth one less than its caller, no search
\* call has a negative depth, and every call of chooseMove terminates.
C9_Terminates == [](StackDepthsOK) /\ <>(pc = "done")

\* a depth-2 call of chooseMove that finished after nested search calls
C9_Witness ==
    /\ pc = "done" /\ baseDepth = SEARCH_DEPTH
    /\ lastRet.kind = "internal" /\ Len(rootLog) > 1

\* C10: in every running search call the maximizing flag is true exactly when
\* the side to move of the node's state is aiColor.
C10_FlagMatchesSideToMove ==
    \A j \in 1..Len(stack) :
        stack[j].isMax = (heap[stack[j].g].currentPlayer = aiColor)

\* a nested search call on a state reached by a capture with promotion
C10_Witness ==
    /\ Len(stack) = 2
    /\ Len(heap[stack[1].g].pieces) < Len(original.pieces)
    /\ \E q \in 1..Len(heap[stack[1].g].pieces) :
          /\ heap[stack[1].g].pieces[q].type = "queen"
          /\ \A o \in 1..Len(original.pieces) : original.pieces[o].type # "queen"
    /\ stack[2].isMax

====
